---- MODULE Spec2Model ----
(***************************************************************************)
(* A model of the BMI web application (src/app.py, src/ai_coach.py): the   *)
(* week segmenter split_plan_into_weeks as a pure operator over character  *)
(* sequences, and the Flask handlers (register, login, logout, bmi_page,   *)
(* clear_history, coach) as actions over the database tables and the       *)
(* session of one browser.                                                 *)
(*                                                                         *)
(* A text is a sequence of one-character strings, so that the regular      *)
(* expression, replace() and strip() of the source are computed character  *)
(* by character.                                                           *)
(***************************************************************************)
EXTENDS Integers, Sequences, FiniteSets, TLC

VARIABLES
    users,        \* table users: sequence of rows, row i has id i
    bmi_history,  \* table bmi_history: sequence of rows in insertion order
    coach_plans,  \* table coach_plans: sequence of rows in insertion order
    session,      \* the Flask session of the browser
    now,          \* the last value datetime.utcnow() returned
    resp,         \* the last response of a handler (template arguments)
    hist,         \* history variable: who wrote the cached coach fields, and
                  \* the turns of the conversation since it was last cleared
    segIn,        \* input text of the segmenter run (SpecSeg)
    segOut,       \* result of the segmenter run (SpecSeg), <<>> before it
    password_resets,  \* table password_resets: row i holds the i-th token
    pending,      \* the generate request of this browser that is in flight
    jar,          \* the other browser: its session cookie, its history
                  \* variable and its request in flight
    gateway,      \* a call of _call_openrouter: what the provider does, the
                  \* HTTP requests sent and the string returned (SpecGate)
    resetting     \* the requests to /reset/<token> that have read and checked
                  \* their token and have not written yet (SpecReset)

vars ==
    <<users, bmi_history, coach_plans, session, now, resp, hist, segIn, segOut,
      password_resets, pending, jar, gateway, resetting>>

\* Python's None where the other values are strings (a goal, a form field)
None == "None"

\* None where the other values are texts: no text has an element "None"
NoText == <<None>>

\* None where the other values are dicts with string keys
NoWeeks == [none |-> TRUE]

\* fetchone() that finds no row
NoRow == [none |-> TRUE]

\* "user_id" not in session; ids of rows start at 1
NoUser == 0

\* get_latest_bmi returns None
NoBmi == 0 - 1

(***************************************************************************)
(* Texts                                                                   *)
(***************************************************************************)
Whitespace == {" ", "\n", "\r", "\t"}

IsSpace(c) == c \in Whitespace

\* a pattern that matches lower case only
CaseSensitive(c) == c

\* re.IGNORECASE for the letters of the pattern
Lower(c) ==
    CASE c = "W" -> "w"
      [] c = "E" -> "e"
      [] c = "K" -> "k"
      [] OTHER -> c

RECURSIVE ReplaceRange(_, _, _)
\* the characters lo..hi of s after the replacement: the occurrences of
\* "\r\n" do not overlap, so replacing each by "\n" drops every "\r" that a
\* "\n" follows (computed by halves to keep the recursion shallow)
ReplaceRange(s, lo, hi) ==
    IF lo > hi THEN <<>>
    ELSE IF lo = hi
         THEN IF s[lo] = "\r" /\ lo < Len(s) /\ s[lo + 1] = "\n" THEN <<>>
              ELSE <<s[lo]>>
         ELSE ReplaceRange(s, lo, (lo + hi) \div 2)
                  \o ReplaceRange(s, (lo + hi) \div 2 + 1, hi)

\* str.replace("\r\n", "\n")
ReplaceCRLF(s) == ReplaceRange(s, 1, Len(s))

RECURSIVE LStrip(_)
LStrip(s) ==
    IF s # <<>> /\ IsSpace(s[1]) THEN LStrip(Tail(s)) ELSE s

RECURSIVE RStrip(_)
RStrip(s) ==
    IF s # <<>> /\ IsSpace(s[Len(s)]) THEN RStrip(SubSeq(s, 1, Len(s) - 1)) ELSE s

\* a strip() that leaves trailing whitespace in place
StripLeftOnly(s) == LStrip(s)

\* str.strip()
Strip(s) == RStrip(LStrip(s))

(***************************************************************************)
(* The gateway _call_openrouter (src/ai_coach.py). What the provider and   *)
(* the network do is the outcome o of the call:                            *)
(*   key        an API key is set in the environment                       *)
(*   transport  "response", or the exception requests.post raises          *)
(*   detail     str(e) of the exception that is raised                     *)
(*   status     r.status_code in decimal digits                            *)
(*   raw        r.text                                                     *)
(*   parsed     what r.json() gives: "object" (a dict without choices),    *)
(*              "content" (choices[0].message.content is a string),        *)
(*              "text" (choices[0].text), "null_content" (the content is   *)
(*              null), "null" (the body is the JSON null), or "invalid"    *)
(*              (the body is not JSON and r.json() raises)                 *)
(*   dumped     json.dumps(r.json(), indent=2) where the body is JSON      *)
(*   content    the string under content or text                           *)
(*   decode     the class of the exception r.json() raises: "ValueError",  *)
(*              or "RequestException" (requests.JSONDecodeError, a         *)
(*              subclass of RequestException in requests 2.27 and later)   *)
(***************************************************************************)
MsgNoKey ==
    <<"A", "I", " ", "C", "o", "a", "c", "h", " ", "i", "s", " ", "u", "n",
      "a", "v", "a", "i", "l", "a", "b", "l", "e", ":", " ", "O", "P", "E",
      "N", "R", "O", "U", "T", "E", "R", "_", "A", "P", "I", "_", "K", "E",
      "Y", " ", "i", "s", " ", "n", "o", "t", " ", "s", "e", "t", " ", "i",
      "n", " ", "R", "e", "n", "d", "e", "r", " ", "E", "n", "v", "i", "r",
      "o", "n", "m", "e", "n", "t", " ", "V", "a", "r", "i", "a", "b", "l",
      "e", "s", ".">>

MsgHttp ==
    <<"A", "I", " ", "C", "o", "a", "c", "h", " ", "i", "s", " ", "u", "n",
      "a", "v", "a", "i", "l", "a", "b", "l", "e", " ", "(", "H", "T", "T",
      "P", " ">>

MsgDetails ==
    <<")", ".", "\n", "\n", "D", "e", "t", "a", "i", "l", "s", ":", "\n">>

MsgUnexpected ==
    <<"A", "I", " ", "C", "o", "a", "c", "h", " ", "e", "r", "r", "o", "r",
      ":", " ", "U", "n", "e", "x", "p", "e", "c", "t", "e", "d", " ", "r",
      "e", "s", "p", "o", "n", "s", "e", " ", "f", "o", "r", "m", "a", "t",
      ".", "\n", "\n", "R", "a", "w", ":", "\n">>

MsgTimeout ==
    <<"A", "I", " ", "C", "o", "a", "c", "h", " ", "t", "i", "m", "e", "d",
      " ", "o", "u", "t", ".", " ", "P", "l", "e", "a", "s", "e", " ", "t",
      "r", "y", " ", "a", "g", "a", "i", "n", ".">>

MsgNetwork ==
    <<"A", "I", " ", "C", "o", "a", "c", "h", " ", "n", "e", "t", "w", "o",
      "r", "k", " ", "e", "r", "r", "o", "r", ":", " ">>

MsgError ==
    <<"A", "I", " ", "C", "o", "a", "c", "h", " ", "e", "r", "r", "o", "r",
      ":", " ">>

\* str(None)
StrNone == <<"N", "o", "n", "e">>

\* str(e) of the TypeError that '"choices" in data' raises for data = None
MsgNotIterable ==
    <<"a", "r", "g", "u", "m", "e", "n", "t", " ", "o", "f", " ", "t", "y",
      "p", "e", " ", "'", "N", "o", "n", "e", "T", "y", "p", "e", "'", " ",
      "i", "s", " ", "n", "o", "t", " ", "i", "t", "e", "r", "a", "b", "l",
      "e">>

\* the status code of success
StatusOk == <<"2", "0", "0">>

\* the handlers of the try block: Timeout, RequestException, Exception
Caught(class, detail) ==
    CASE class = "Timeout" -> MsgTimeout
      [] class = "RequestException" -> MsgNetwork \o detail
      [] OTHER -> MsgError \o detail

\* an error text that leaves the status code out
HttpErrorTextNoStatus(o) ==
    MsgHttp \o MsgDetails \o (IF o.parsed = "invalid" THEN o.raw ELSE o.dumped)

\* the branch "if r.status_code != 200": the details are the JSON body
\* serialised again, or r.text where the body is not JSON
HttpErrorText(o) ==
    MsgHttp \o o.status \o MsgDetails \o
        (IF o.parsed = "invalid" THEN o.raw ELSE o.dumped)

\* the statements after "data = r.json()" for a response of status 200
ParsedText(o) ==
    CASE o.parsed = "invalid" -> Caught(o.decode, o.detail)
      [] o.parsed = "null" -> Caught("Exception", MsgNotIterable)
      [] o.parsed = "content" -> Strip(o.content)
      [] o.parsed = "text" -> Strip(o.content)
      [] o.parsed = "null_content" -> Strip(StrNone)
      [] OTHER -> MsgUnexpected \o o.dumped

\* the string _call_openrouter returns
GatewayText(o) ==
    IF ~o.key THEN MsgNoKey
    ELSE IF o.transport # "response" THEN Caught(o.transport, o.detail)
    ELSE IF o.status # StatusOk THEN HttpErrorText(o)
    ELSE ParsedText(o)

\* a gateway that sends the request a second time after a timeout
GatewayRequestsRetried(o) ==
    IF ~o.key THEN 0 ELSE IF o.transport = "Timeout" THEN 2 ELSE 1

\* the calls of requests.post one call of _call_openrouter makes
GatewayRequests(o) == IF o.key THEN 1 ELSE 0

\* _call_openrouter(messages) under outcome o: every path ends in a return
_call_openrouter(o) ==
    [outcome |-> o, returned |-> TRUE, raised |-> FALSE,
     text |-> GatewayText(o), requests |-> GatewayRequests(o)]

\* the outcome of a call that the provider answers with status 200 and a
\* message whose content is the string content
Content(content) ==
    [key |-> TRUE, transport |-> "response", detail |-> <<>>, status |-> StatusOk,
     raw |-> <<>>, parsed |-> "content", dumped |-> <<>>, content |-> content,
     decode |-> "ValueError"]

\* no call of _call_openrouter was made yet
NoOutcome == [Content(<<>>) EXCEPT !.transport = "none"]

NoCall ==
    [outcome |-> NoOutcome, returned |-> FALSE, raised |-> FALSE, text |-> <<>>,
     requests |-> 0]

(***************************************************************************)
(* The pattern (week\s*([1-4])\s*[:\-]?) of split_plan_into_weeks.         *)
(* Positions are 1-based; a match is [start, end, group2] where end is the *)
(* position of the first character after the match.                        *)
(***************************************************************************)
RECURSIVE SkipSpace(_, _)
\* \s* is greedy: the first position at or after i that holds no whitespace
SkipSpace(t, i) ==
    IF i <= Len(t) /\ IsSpace(t[i]) THEN SkipSpace(t, i + 1) ELSE i

\* a pattern whose digit class reaches 5
WideWeekDigits == {"1", "2", "3", "4", "5"}

\* the class [1-4] of the pattern
WeekDigits == {"1", "2", "3", "4"}

NoMatch == [start |-> 0, end |-> 0, group2 |-> ""]

MatchAt(t, i) ==
    IF /\ i + 3 <= Len(t)
       /\ Lower(t[i]) = "w" /\ Lower(t[i + 1]) = "e"
       /\ Lower(t[i + 2]) = "e" /\ Lower(t[i + 3]) = "k"
    THEN LET j == SkipSpace(t, i + 4) IN
         IF j <= Len(t) /\ t[j] \in WeekDigits
         THEN LET k == SkipSpace(t, j + 1)
                  e == IF k <= Len(t) /\ t[k] \in {":", "-"} THEN k + 1 ELSE k
              IN [start |-> i, end |-> e, group2 |-> t[j]]
         ELSE NoMatch
    ELSE NoMatch

\* the positions at or after i where the pattern matches
MatchStarts(t, i) == {j \in i..Len(t) : MatchAt(t, j) # NoMatch}

\* the leftmost of a non-empty set of positions
Leftmost(S) == CHOOSE j \in S : \A k \in S : j <= k

RECURSIVE FindIter(_, _)
RECURSIVE FindFrom(_, _)
\* the matches from the leftmost position of S on
FindFrom(t, S) ==
    IF S = {} THEN <<>>
    ELSE <<MatchAt(t, Leftmost(S))>> \o FindIter(t, MatchAt(t, Leftmost(S)).end)

\* list(pattern.finditer(text)): leftmost matches, the scan resumes at the
\* end of each match
FindIter(t, i) == FindFrom(t, MatchStarts(t, i))

\* int(week_num_str) for a digit
IntOf(d) ==
    CASE d = "1" -> 1
      [] d = "2" -> 2
      [] d = "3" -> 3
      [] d = "4" -> 4
      [] d = "5" -> 5
      [] d = "6" -> 6
      [] d = "7" -> 7
      [] d = "8" -> 8
      [] d = "9" -> 9
      [] OTHER -> 0

EmptyWeeks == [n \in 1..4 |-> <<>>]

\* a section that runs to the end of the text whatever follows
SectionToEnd(text, matches, i) ==
    Strip(SubSeq(text, matches[i].end, Len(text)))

\* text[start_idx:end_idx].strip() of match i
SectionOf(text, matches, i) ==
    LET start_idx == matches[i].end
        end_idx == IF i + 1 <= Len(matches) THEN matches[i + 1].start
                   ELSE Len(text) + 1
    IN Strip(SubSeq(text, start_idx, end_idx - 1))

\* an iteration that stores the section even when it is empty
StoreAlways(weeks, week_num, section) == (week_num :> section) @@ weeks

\* "if section: weeks[week_num] = section": a dict assignment, which adds
\* the key when the dict has none
StoreSection(weeks, week_num, section) ==
    IF section # <<>> THEN (week_num :> section) @@ weeks ELSE weeks

RECURSIVE WeekLoop(_, _, _, _)
WeekLoop(text, matches, i, weeks) ==
    IF i > Len(matches) THEN weeks
    ELSE WeekLoop(text, matches, i + 1,
                  StoreSection(weeks, IntOf(matches[i].group2),
                               SectionOf(text, matches, i)))

split_plan_into_weeks(plan_text) ==
    LET text == ReplaceCRLF(plan_text)
        matches == FindIter(text, 1)
    IN IF matches = <<>> THEN (1 :> Strip(text)) @@ EmptyWeeks
       ELSE LET weeks == WeekLoop(text, matches, 1, EmptyWeeks) IN
            IF \A n \in DOMAIN weeks : weeks[n] = <<>>
            THEN (1 :> Strip(text)) @@ weeks
            ELSE weeks

(***************************************************************************)
(* Input texts of the segmenter runs                                       *)
(***************************************************************************)
\* the fragments texts are built from: headings in several spellings, a
\* heading number outside 1..4, a bare "week", content, whitespace, a
\* carriage return and a line end \r\n
Pieces ==
    { <<"w", "e", "e", "k", "1", ":">>,
      <<"W", "E", "E", "K", " ", "2">>,
      <<"W", "e", "e", "k">>,
      <<"3", "-">>,
      <<"w", "e", "e", "k", "5">>,
      <<"a">>,
      <<"b">>,
      <<" ">>,
      <<"\r">>,
      <<"\r", "\n">> }

MaxPieces == 4

RECURSIVE PieceTexts(_)
\* every concatenation of at most n pieces
PieceTexts(n) ==
    IF n = 0 THEN {<<>>}
    ELSE LET S == PieceTexts(n - 1) IN S \cup {s \o p : s \in S, p \in Pieces}

\* the heading the prompt of generate_bmi_coach_plan asks for: 'WEEK n:'
Heading(n) == <<"W", "E", "E", "K", " ">> \o <<(<<"1", "2", "3", "4">>)[n]>> \o <<":">>

\* the text between two headings of a four-week plan
Bodies ==
    { <<"\n", "-", " ", "a", "\n", "\n">>,
      <<"\r", "\n", "b", "\r", "\n", "c", "\r", "\n">>,
      <<"\n", "x", " ", "w", "e", "e", "k", " ", "2", " ", "y", "\n">>,
      <<"\n", "\n">> }

Plan4(b) ==
    Heading(1) \o b[1] \o Heading(2) \o b[2] \o Heading(3) \o b[3] \o Heading(4) \o b[4]

BodyTuples == Bodies \X Bodies \X Bodies \X Bodies

FourWeekPlans == {Plan4(b) : b \in BodyTuples}

\* segment("WEEK 1:\n- walk\nMotivation: \"go\"\n\nWEEK 2:\n- run")
Scenario ==
    <<"W", "E", "E", "K", " ", "1", ":", "\n", "-", " ", "w", "a", "l", "k", "\n",
      "M", "o", "t", "i", "v", "a", "t", "i", "o", "n", ":", " ", "\"", "g", "o", "\"",
      "\n", "\n", "W", "E", "E", "K", " ", "2", ":", "\n", "-", " ", "r", "u", "n">>

SegInputs == PieceTexts(MaxPieces) \cup FourWeekPlans \cup {Scenario}

(***************************************************************************)
(* Database tables and helpers                                             *)
(***************************************************************************)
Usernames == {"alice", "bob"}

Emails == {"a@x", "b@x"}

UpperCase == {"A", "B", "C", "S", "X"}
LowerCase == {"a", "b", "c", "e", "r", "t"}
Digits == {"0", "1", "2", "3", "4", "5", "6", "7", "8", "9"}

MinPasswordLen == 6

is_valid_password(password) ==
    /\ Len(password) >= MinPasswordLen
    /\ \E i \in 1..Len(password) : password[i] \in UpperCase
    /\ \E i \in 1..Len(password) : password[i] \in LowerCase
    /\ \E i \in 1..Len(password) : password[i] \in Digits

\* generate_password_hash: a value that check_password_hash accepts for
\* this password and no other
hash_password(password) == <<"pbkdf2:sha256", password>>

check_password_hash(pwhash, password) == pwhash = hash_password(password)

\* SELECT ... FROM users WHERE username = ?   (the row's id, 0 when absent)
UserIdOf(username) ==
    IF \E i \in 1..Len(users) : users[i].username = username
    THEN CHOOSE i \in 1..Len(users) : users[i].username = username
    ELSE 0

\* rows of a table that belong to one user
RowsOf(table, user_id) == {i \in 1..Len(table) : table[i].user_id = user_id}

\* SELECT bmi FROM bmi_history WHERE user_id = ? ORDER BY timestamp DESC LIMIT 1
get_latest_bmi(user_id) ==
    LET rows == RowsOf(bmi_history, user_id) IN
    IF rows = {} THEN NoBmi
    ELSE LET i == CHOOSE i \in rows :
                    \A j \in rows : bmi_history[j].timestamp <= bmi_history[i].timestamp
         IN bmi_history[i].bmi

\* a query that takes the row inserted last
LastInsertedPlanRow(user_id) ==
    LET rows == RowsOf(coach_plans, user_id) IN
    IF rows = {} THEN NoRow
    ELSE coach_plans[CHOOSE i \in rows : \A j \in rows : j <= i]

\* a query that orders by created_at ascending
OldestPlanRow(user_id) ==
    LET rows == RowsOf(coach_plans, user_id) IN
    IF rows = {} THEN NoRow
    ELSE LET i == CHOOSE i \in rows :
                    \A j \in rows : coach_plans[i].created_at <= coach_plans[j].created_at
         IN coach_plans[i]

\* SELECT goal, plan_text FROM coach_plans WHERE user_id = ?
\*   ORDER BY created_at DESC LIMIT 1
LatestPlanRow(user_id) ==
    LET rows == RowsOf(coach_plans, user_id) IN
    IF rows = {} THEN NoRow
    ELSE LET i == CHOOSE i \in rows :
                    \A j \in rows : coach_plans[j].created_at <= coach_plans[i].created_at
         IN coach_plans[i]

\* bmi thresholds in hundredths
UnderweightBelow == 1850
NormalBelow == 2500
OverweightBelow == 3000

compute_category(bmi) ==
    IF bmi < UnderweightBelow THEN "Underweight"
    ELSE IF bmi < NormalBelow THEN "Normal"
    ELSE IF bmi < OverweightBelow THEN "Overweight"
    ELSE "Obese"

\* round(weight / (height ** 2), 2) in hundredths, weight in kg, height in cm
BmiOf(weight, height) ==
    (2 * weight * 1000000 + height * height) \div (2 * height * height)

(***************************************************************************)
(* Session and responses                                                   *)
(***************************************************************************)
\* a session without keys. coach_chat is only ever read with
\* session.get("coach_chat", []), so the missing key and the empty list are
\* one value here
EmptySession ==
    [user_id |-> NoUser, username |-> None, coach_plan_text |-> NoText,
     coach_weeks |-> NoWeeks, coach_goal |-> None, coach_chat |-> <<>>]

\* plan, weeks, goal: the user the session field was last written for;
\* chat: the users whose turns the conversation holds; turns: how many turns
\* were appended since the conversation was last cleared (counted up to
\* MaxChat); chat_before: the length of the conversation when the last
\* request to /coach arrived
NoHist ==
    [plan |-> NoUser, weeks |-> NoUser, goal |-> NoUser, chat |-> {},
     turns |-> 0, chat_before |-> 0]

NoResp ==
    [handler |-> None, method |-> None, action |-> None, week_arg |-> None,
     status |-> None, week |-> 0, plan_text |-> NoText, goal |-> None,
     week_text |-> <<>>, chat |-> <<>>, error_msg |-> None, called |-> 0,
     loaded |-> FALSE, question |-> NoText, goal_arg |-> None]

\* the truth value Python gives a string or None
Truthy(x) == x # NoText /\ x # <<>>

\* {str(k): v for k, v in parsed.items()}
StrKey(k) == (<<"1", "2", "3", "4", "5", "6", "7", "8", "9">>)[k]

StrKeys(parsed) ==
    [key \in {StrKey(k) : k \in DOMAIN parsed} |->
        parsed[CHOOSE k \in DOMAIN parsed : StrKey(k) = key]]

(***************************************************************************)
(* coach(): the week parameter                                             *)
(***************************************************************************)
\* values of the query parameter "week" (None: the parameter is absent)
WeekArgs == {None, "1", "2", "3", "4", "0", "5", "-2", "x"}

\* int(week) for the sample arguments; ok is FALSE where int() raises
IntParse(arg) ==
    CASE arg = "1" -> [ok |-> TRUE, val |-> 1]
      [] arg = "2" -> [ok |-> TRUE, val |-> 2]
      [] arg = "3" -> [ok |-> TRUE, val |-> 3]
      [] arg = "4" -> [ok |-> TRUE, val |-> 4]
      [] arg = "0" -> [ok |-> TRUE, val |-> 0]
      [] arg = "5" -> [ok |-> TRUE, val |-> 5]
      [] arg = "-2" -> [ok |-> TRUE, val |-> 0 - 2]
      [] OTHER -> [ok |-> FALSE, val |-> 0]

\* a week parameter clamped to the nearest of 1 and 4
WeekParamClamped(week_arg) ==
    LET raw == IF week_arg = None THEN "1" ELSE week_arg
        parsed == IntParse(raw)
        week == IF parsed.ok THEN parsed.val ELSE 1
    IN IF week < 1 THEN 1 ELSE IF week > 4 THEN 4 ELSE week

\* week = request.args.get("week", "1"); int(week) or 1; outside 1..4 -> 1
WeekParam(week_arg) ==
    LET raw == IF week_arg = None THEN "1" ELSE week_arg
        parsed == IntParse(raw)
        week == IF parsed.ok THEN parsed.val ELSE 1
    IN IF week \notin {1, 2, 3, 4} THEN 1 ELSE week

\* weeks.get(str(week)) or weeks.get(week) or "" ; the keys of the cached
\* map are strings, so the lookup with the integer key finds nothing
WeekLookup(weeks, week) ==
    IF weeks = NoWeeks THEN <<>>
    ELSE IF StrKey(week) \in DOMAIN weeks /\ Truthy(weeks[StrKey(week)])
         THEN weeks[StrKey(week)]
         ELSE <<>>

\* a selection without the fallback to the plan text
SelectWeekNoFallback(weeks, week, plan_text) == WeekLookup(weeks, week)

\* the text the template shows for the week: the section, else the plan text
SelectWeek(weeks, week, plan_text) ==
    LET current_week_text == WeekLookup(weeks, week) IN
    IF current_week_text = <<>> /\ Truthy(plan_text) THEN plan_text
    ELSE current_week_text

MaxChat == 20

\* a truncation that keeps one turn less than the limit
TruncateChatOdd(chat) ==
    IF Len(chat) > MaxChat THEN SubSeq(chat, Len(chat) - MaxChat + 2, Len(chat))
    ELSE chat

\* a truncation that keeps the oldest turns: chat[:20]
TruncateChatHead(chat) ==
    IF Len(chat) > MaxChat THEN SubSeq(chat, 1, MaxChat) ELSE chat

\* chat = chat[-20:] when len(chat) > 20
TruncateChat(chat) ==
    IF Len(chat) > MaxChat THEN SubSeq(chat, Len(chat) - MaxChat + 1, Len(chat))
    ELSE chat

\* chat.append(question turn); chat.append(answer turn); truncate
AppendTurns(chat, question, answer) ==
    TruncateChat(chat \o <<[role |-> "user", content |-> question],
                           [role |-> "assistant", content |-> answer]>>)

DefaultGoal == "lose weight"

MsgNoBmi == "Please calculate your BMI at least once before using AI Coach."
MsgNoQuestion == "Type a question first."

(***************************************************************************)
(* The handlers                                                            *)
(***************************************************************************)
\* a redirect that changes nothing
Redirect(handler, target) ==
    /\ resp' = [NoResp EXCEPT !.handler = handler, !.status = target]
    /\ UNCHANGED <<users, bmi_history, coach_plans, session, now, hist, segIn, segOut, password_resets, pending, jar, gateway, resetting>>

\* POST /register
Register(username, email, password) ==
    IF ~is_valid_password(password)
    THEN /\ resp' = [NoResp EXCEPT !.handler = "register", !.status = "invalid password"]
         /\ UNCHANGED <<users, bmi_history, coach_plans, session, now, hist, segIn, segOut, password_resets, pending, jar, gateway, resetting>>
    ELSE IF \E i \in 1..Len(users) :
                users[i].username = username \/ users[i].email = email
    THEN \* sqlite3.IntegrityError: UNIQUE constraint
         /\ resp' = [NoResp EXCEPT !.handler = "register", !.status = "not available"]
         /\ UNCHANGED <<users, bmi_history, coach_plans, session, now, hist, segIn, segOut, password_resets, pending, jar, gateway, resetting>>
    ELSE /\ users' = Append(users, [username |-> username, email |-> email,
                                    password_hash |-> hash_password(password)])
         /\ session' = [session EXCEPT !.user_id = Len(users) + 1,
                                       !.username = username]
         /\ resp' = [NoResp EXCEPT !.handler = "register", !.status = "dashboard"]
         /\ UNCHANGED <<bmi_history, coach_plans, now, hist, segIn, segOut, password_resets, pending, jar, gateway, resetting>>

\* POST /login
Login(username, password) ==
    IF session.user_id # NoUser THEN Redirect("login", "dashboard")
    ELSE LET id == UserIdOf(username) IN
         IF id = 0 \/ ~check_password_hash(users[id].password_hash, password)
         THEN /\ resp' = [NoResp EXCEPT !.handler = "login", !.status = "invalid"]
              /\ UNCHANGED <<users, bmi_history, coach_plans, session, now, hist,
                             segIn, segOut, password_resets, pending, jar, gateway, resetting>>
         ELSE /\ session' = [session EXCEPT !.user_id = id,
                                            !.username = users[id].username,
                                            !.coach_plan_text = NoText,
                                            !.coach_weeks = NoWeeks,
                                            !.coach_goal = None,
                                            !.coach_chat = <<>>]
              /\ hist' = NoHist
              /\ resp' = [NoResp EXCEPT !.handler = "login", !.status = "dashboard"]
              /\ UNCHANGED <<users, bmi_history, coach_plans, now, segIn, segOut, password_resets, pending, jar, gateway, resetting>>

\* GET /logout
Logout ==
    /\ session' = EmptySession
    /\ hist' = NoHist
    /\ resp' = [NoResp EXCEPT !.handler = "logout", !.status = "login"]
    /\ UNCHANGED <<users, bmi_history, coach_plans, now, segIn, segOut, password_resets, pending, jar, gateway, resetting>>

\* SELECT id, username FROM users WHERE email = ?   (the row's id, 0 when
\* absent)
UserIdOfEmail(email) ==
    IF \E i \in 1..Len(users) : users[i].email = email
    THEN CHOOSE i \in 1..Len(users) : users[i].email = email
    ELSE 0

\* POST /forgot: a token is stored for the account of the email; the token
\* of row i of password_resets is written i
Forgot(email) ==
    /\ password_resets' =
           IF UserIdOfEmail(email) # 0
           THEN Append(password_resets, [user_id |-> UserIdOfEmail(email), used |-> FALSE])
           ELSE password_resets
    /\ resp' = [NoResp EXCEPT !.handler = "forgot", !.status = "login"]
    /\ UNCHANGED <<users, bmi_history, coach_plans, session, now, hist, segIn, segOut,
                   pending, jar, gateway, resetting>>

\* POST /reset/<token>; expired tells whether datetime.utcnow() has passed
\* the token's expires_at
ResetPassword(token, expired, new_pw) ==
    IF token \notin DOMAIN password_resets
    THEN Redirect("reset_password", "invalid link")
    ELSE IF password_resets[token].used \/ expired
    THEN Redirect("reset_password", "invalid link")
    ELSE IF ~is_valid_password(new_pw)
    THEN /\ resp' = [NoResp EXCEPT !.handler = "reset_password",
                                   !.status = "invalid password"]
         /\ UNCHANGED <<users, bmi_history, coach_plans, session, now, hist, segIn,
                        segOut, password_resets, pending, jar, gateway, resetting>>
    ELSE /\ users' = [users EXCEPT ![password_resets[token].user_id].password_hash =
                                      hash_password(new_pw)]
         /\ password_resets' = [password_resets EXCEPT ![token].used = TRUE]
         /\ resp' = [NoResp EXCEPT !.handler = "reset_password", !.status = "login"]
         /\ UNCHANGED <<bmi_history, coach_plans, session, now, hist, segIn, segOut,
                   pending, jar, gateway, resetting>>

\* POST /reset/<token> up to the UPDATE statements, for requests that
\* overlap: request req reads the row of its token and checks it and the new
\* password. The checks are those of ResetPassword; a request that passes
\* them holds the row it read until it writes
ResetCheck(req, token, expired, new_pw) ==
    IF token \notin DOMAIN password_resets
    THEN Redirect("reset_password", "invalid link")
    ELSE IF password_resets[token].used \/ expired
    THEN Redirect("reset_password", "invalid link")
    ELSE IF ~is_valid_password(new_pw)
    THEN /\ resp' = [NoResp EXCEPT !.handler = "reset_password",
                                   !.status = "invalid password"]
         /\ UNCHANGED <<users, bmi_history, coach_plans, session, now, hist, segIn,
                        segOut, password_resets, pending, jar, gateway, resetting>>
    ELSE /\ resetting' = resetting \cup
                 {[req |-> req, token |-> token,
                   user_id |-> password_resets[token].user_id, new_pw |-> new_pw]}
         /\ UNCHANGED <<users, bmi_history, coach_plans, session, now, resp, hist,
                        segIn, segOut, password_resets, pending, jar, gateway>>

\* the two UPDATE statements, the commit and the redirect of a request that
\* passed its checks: the row is not read again
ResetWrite(r) ==
    /\ users' = [users EXCEPT ![r.user_id].password_hash = hash_password(r.new_pw)]
    /\ password_resets' = [password_resets EXCEPT ![r.token].used = TRUE]
    /\ resetting' = resetting \ {r}
    /\ resp' = [NoResp EXCEPT !.handler = "reset_password", !.status = "login"]
    /\ UNCHANGED <<bmi_history, coach_plans, session, now, hist, segIn, segOut,
                   pending, jar, gateway>>

\* POST /bmi ; valid is FALSE where float() raises
BmiPost(valid, weight, height) ==
    IF session.user_id = NoUser THEN Redirect("bmi_page", "login")
    ELSE IF ~valid \/ weight <= 0 \/ height <= 0
    THEN /\ resp' = [NoResp EXCEPT !.handler = "bmi_page", !.status = "invalid input"]
         /\ UNCHANGED <<users, bmi_history, coach_plans, session, now, hist, segIn, segOut, password_resets, pending, jar, gateway, resetting>>
    ELSE /\ now' = now + 1
         /\ bmi_history' = Append(bmi_history,
                [user_id |-> session.user_id, weight |-> weight, height |-> height,
                 bmi |-> BmiOf(weight, height),
                 category |-> compute_category(BmiOf(weight, height)),
                 timestamp |-> now + 1])
         /\ resp' = [NoResp EXCEPT !.handler = "bmi_page", !.status = "ok"]
         /\ UNCHANGED <<users, coach_plans, session, hist, segIn, segOut, password_resets, pending, jar, gateway, resetting>>

\* a DELETE without its WHERE clause
DeleteAllRows(table, user_id) == <<>>

\* DELETE FROM bmi_history WHERE user_id = ?
DeleteRows(table, user_id) == SelectSeq(table, LAMBDA r : r.user_id # user_id)

\* POST /bmi/clear
ClearHistory ==
    IF session.user_id = NoUser THEN Redirect("clear_history", "login")
    ELSE /\ bmi_history' = DeleteRows(bmi_history, session.user_id)
         /\ resp' = [NoResp EXCEPT !.handler = "clear_history", !.status = "bmi_page"]
         /\ UNCHANGED <<users, coach_plans, session, now, hist, segIn, segOut, password_resets, pending, jar, gateway, resetting>>

\* generate_bmi_coach_plan / ask_ai_coach build the prompt and return
\* whatever string their one call of _call_openrouter yields; reply is the
\* outcome of that call
generate_bmi_coach_plan(name, bmi, goal, reply) == _call_openrouter(reply).text

ask_ai_coach(question, name, bmi, goal, week, reply) == _call_openrouter(reply).text

\* a load that caches the stored text and goal and leaves the week map alone
PlanLoadedTextOnly(sess, row, weeks) ==
    [loaded |-> TRUE,
     session |-> [sess EXCEPT !.coach_plan_text = row.plan_text,
                              !.coach_goal = row.goal],
     plan_text |-> row.plan_text,
     goal_saved |-> row.goal,
     weeks |-> sess.coach_weeks]

\* the session and the local variables of coach() once the stored plan row
\* was read into them: the body of "if row:"
PlanLoaded(sess, row, weeks) ==
    [loaded |-> TRUE,
     session |-> [sess EXCEPT !.coach_plan_text = row.plan_text,
                              !.coach_goal = row.goal,
                              !.coach_weeks = weeks],
     plan_text |-> row.plan_text,
     goal_saved |-> row.goal,
     weeks |-> weeks]

\* the session and the local variables of coach() where nothing is loaded
PlanKept(sess) ==
    [loaded |-> FALSE,
     session |-> sess,
     plan_text |-> sess.coach_plan_text,
     goal_saved |-> IF sess.coach_goal # None THEN sess.coach_goal ELSE DefaultGoal,
     weeks |-> sess.coach_weeks]

\* the stored plan is read when the session holds none ("if not plan_text:")
LoadFrom(sess, row) ==
    IF ~Truthy(sess.coach_plan_text) /\ row # NoRow
    THEN PlanLoaded(sess, row, StrKeys(split_plan_into_weeks(row.plan_text)))
    ELSE PlanKept(sess)

\* the session and the local variables of coach() after the block that loads
\* the stored plan
LoadPlan(sess) == LoadFrom(sess, LatestPlanRow(sess.user_id))

\* an ask branch that sends every question on
QuestionNeverMissing(question) == FALSE

\* "if not question:" for the stripped question of the form
QuestionMissing(question) == question = <<>>

\* a check that lets a user without BMI through
BmiNeverMissing(latest_bmi) == FALSE

\* "if latest_bmi is None"
BmiMissing(latest_bmi) == latest_bmi = NoBmi

\* a generate that keeps the conversation
ChatKept(chat) == chat

\* session["coach_chat"] = [] ; chat = [] after a plan was generated
ChatAfterGenerate(chat) == <<>>

\* the local variable weeks that the final week lookup reads after a
\* generate: coach() assigns session["coach_weeks"] and leaves weeks as it was
WeeksAfterGenerate(weeks_before, new_weeks) == weeks_before

\* no request is in flight
NoPending == [stage |-> "idle"]

\* a browser that has sent nothing yet
EmptyJar == [session |-> EmptySession, hist |-> NoHist, pending |-> NoPending]

\* who the cached fields were written for, after the load block of a
\* request that found a conversation of chat_before turns
HistLoaded(loaded, chat_before) ==
    [hist EXCEPT !.plan = IF loaded THEN session.user_id ELSE @,
                 !.weeks = IF loaded THEN session.user_id ELSE @,
                 !.goal = IF loaded THEN session.user_id ELSE @,
                 !.chat_before = chat_before]

\* render_template("coach.html", ...): the response, with the session and
\* the record of who the cache was written for as the request leaves them
Render(sess, h, base, plan_text, weeks, week, chat, error_msg, called) ==
    /\ session' = sess
    /\ hist' = h
    /\ resp' = [base EXCEPT !.plan_text = plan_text,
                            !.week_text = SelectWeek(weeks, week, plan_text),
                            !.chat = chat,
                            !.error_msg = error_msg,
                            !.called = called]
    /\ UNCHANGED <<users, bmi_history, segIn, segOut, password_resets, pending, jar,
                   resetting>>

\* a store that keeps one plan per user: the new row replaces the user's rows
ReplacePlan(table, row) ==
    Append(SelectSeq(table, LAMBDA r : r.user_id # row.user_id), row)

\* INSERT INTO coach_plans (user_id, goal, plan_text, created_at)
InsertPlan(table, row) == Append(table, row)

\* the generate branch once the provider has answered plan_text and the text
\* was split into new_weeks
Generated(week, ld, goal, post, sess2, hist2, plan_text, new_weeks) ==
    /\ now' = now + 1
    /\ coach_plans' = InsertPlan(coach_plans,
           [user_id |-> session.user_id, goal |-> goal,
            plan_text |-> plan_text, created_at |-> now + 1])
    /\ Render([sess2 EXCEPT !.coach_plan_text = plan_text,
                            !.coach_weeks = new_weeks,
                            !.coach_chat = ChatAfterGenerate(session.coach_chat)],
              [hist2 EXCEPT !.plan = session.user_id,
                            !.weeks = session.user_id,
                            !.chat = {},
                            !.turns = 0],
              post, plan_text, WeeksAfterGenerate(ld.weeks, new_weeks), week,
              ChatAfterGenerate(session.coach_chat), None, 1)

\* the ask branch once the provider has answered and the two turns were
\* appended to the conversation
Asked(week, ld, post, sess2, hist2, chat) ==
    /\ Render([sess2 EXCEPT !.coach_chat = chat],
              [hist2 EXCEPT !.chat = @ \cup {session.user_id},
                            !.turns = IF @ + 2 > MaxChat THEN MaxChat ELSE @ + 2],
              post, ld.plan_text, ld.weeks, week, chat, None, 1)
    /\ UNCHANGED <<coach_plans, now>>

\* a failure that empties the conversation
UnansweredCleared(week, ld, post, sess2, hist2, error_msg) ==
    /\ Render([sess2 EXCEPT !.coach_chat = <<>>], hist2, post, ld.plan_text,
              ld.weeks, week, <<>>, error_msg, 0)
    /\ UNCHANGED <<coach_plans, now, gateway>>

\* a POST that leaves through render_template without calling the provider
Unanswered(week, ld, post, sess2, hist2, error_msg) ==
    /\ Render(sess2, hist2, post, ld.plan_text, ld.weeks, week,
              session.coach_chat, error_msg, 0)
    /\ UNCHANGED <<coach_plans, now, gateway>>

\* the branches of "if request.method == 'POST':" after the goal was stored
CoachPost(week, form, reply, ld, action, goal, latest_bmi, post, sess2, hist2, question) ==
    IF BmiMissing(latest_bmi)
    THEN Unanswered(week, ld, post, sess2, hist2, MsgNoBmi)
    ELSE IF action = "generate"
    THEN /\ Generated(week, ld, goal, post, sess2, hist2,
                   generate_bmi_coach_plan(session.username, latest_bmi, goal, reply),
                   StrKeys(split_plan_into_weeks(
                       generate_bmi_coach_plan(session.username, latest_bmi, goal, reply))))
         /\ gateway' = _call_openrouter(reply)
    ELSE IF action = "ask"
    THEN IF QuestionMissing(question)
         THEN Unanswered(week, ld, post, sess2, hist2, MsgNoQuestion)
         ELSE /\ Asked(week, ld, post, sess2, hist2,
                       AppendTurns(session.coach_chat, question,
                                   ask_ai_coach(question, session.username, latest_bmi,
                                                goal, week, reply)))
              /\ gateway' = _call_openrouter(reply)
    ELSE \* a POST with another action value only stores the goal
         Unanswered(week, ld, post, sess2, hist2, None)

\* coach() of a logged-in user after the week argument was read and the
\* stored plan was loaded
CoachLoaded(method, form, reply, week, ld, base, h, goal) ==
    IF method = "GET"
    THEN /\ Render(ld.session, h, base, ld.plan_text, ld.weeks, week,
                   session.coach_chat, None, 0)
         /\ UNCHANGED <<coach_plans, now, gateway>>
    ELSE CoachPost(week, form, reply, ld,
                   IF form.action # None THEN form.action ELSE "",
                   goal,
                   get_latest_bmi(session.user_id),
                   [base EXCEPT !.action = IF form.action # None THEN form.action ELSE "",
                                !.question = form.question,
                                !.goal_arg = form.goal],
                   [ld.session EXCEPT !.coach_goal = goal],
                   [h EXCEPT !.goal = session.user_id],
                   Strip(IF form.question # NoText THEN form.question ELSE <<>>))

\* the response fields every answer of coach() carries
CoachBase(method, week_arg, week, goal_saved, loaded) ==
    [NoResp EXCEPT !.handler = "coach", !.method = method,
                   !.week_arg = week_arg, !.week = week,
                   !.goal = goal_saved, !.status = "ok",
                   !.loaded = loaded]

\* coach() of a logged-in user after the week argument was read
CoachWeek(method, week_arg, form, reply, week, ld) ==
    CoachLoaded(method, form, reply, week, ld,
                CoachBase(method, week_arg, week, ld.goal_saved, ld.loaded),
                HistLoaded(ld.loaded, Len(session.coach_chat)),
                IF form.goal # None THEN form.goal ELSE ld.goal_saved)

\* GET or POST /coach?week=week_arg with the form fields action, goal and
\* question (None: the field is absent); reply is the outcome of the call
\* of the provider if the request makes one
Coach(method, week_arg, form, reply) ==
    IF session.user_id = NoUser THEN Redirect("coach", "login")
    ELSE CoachWeek(method, week_arg, form, reply, WeekParam(week_arg),
                   LoadPlan(session))

(***************************************************************************)
(* A generate request step by step, for requests of two browsers that      *)
(* overlap. The session of a request is the cookie it arrived with; what    *)
(* the request writes to it reaches the browser with the response.          *)
(***************************************************************************)
\* the request in flight after generate_bmi_coach_plan returned plan_text
Called(ld, goal, plan_text) ==
    [stage |-> "called",
     sess |-> [ld.session EXCEPT !.coach_goal = goal, !.coach_plan_text = plan_text],
     goal |-> goal,
     plan_text |-> plan_text,
     created_at |-> 0]

\* POST /coach action=generate up to the return of generate_bmi_coach_plan
GenerateCall(form, reply) ==
    /\ pending = NoPending
    /\ session.user_id # NoUser
    /\ ~BmiMissing(get_latest_bmi(session.user_id))
    /\ pending' = Called(LoadPlan(session),
                         IF form.goal # None THEN form.goal
                         ELSE LoadPlan(session).goal_saved,
                         generate_bmi_coach_plan(session.username,
                             get_latest_bmi(session.user_id), form.goal, reply))
    /\ gateway' = _call_openrouter(reply)
    /\ UNCHANGED <<users, bmi_history, coach_plans, session, now, resp, hist, segIn,
                   segOut, password_resets, jar, resetting>>

\* datetime.utcnow().isoformat(), evaluated before cur.execute runs
GenerateStamp ==
    /\ pending.stage = "called"
    /\ now' = now + 1
    /\ pending' = [pending EXCEPT !.stage = "stamped", !.created_at = now + 1]
    /\ UNCHANGED <<users, bmi_history, coach_plans, session, resp, hist, segIn, segOut,
                   password_resets, jar, gateway, resetting>>

\* cur.execute("INSERT INTO coach_plans ...") ; conn.commit()
GenerateInsert ==
    /\ pending.stage = "stamped"
    /\ coach_plans' = InsertPlan(coach_plans,
           [user_id |-> pending.sess.user_id, goal |-> pending.goal,
            plan_text |-> pending.plan_text, created_at |-> pending.created_at])
    /\ pending' = [pending EXCEPT !.stage = "inserted"]
    /\ UNCHANGED <<users, bmi_history, session, now, resp, hist, segIn, segOut,
                   password_resets, jar, gateway, resetting>>

\* the rest of the request: the week map and the empty conversation are
\* written to the session, the page is rendered and the response carries
\* the session to the browser
GenerateRespond ==
    /\ pending.stage = "inserted"
    /\ session' = [pending.sess EXCEPT
                      !.coach_weeks = StrKeys(split_plan_into_weeks(pending.plan_text)),
                      !.coach_chat = ChatAfterGenerate(pending.sess.coach_chat)]
    /\ hist' = [hist EXCEPT !.plan = pending.sess.user_id,
                            !.weeks = pending.sess.user_id,
                            !.goal = pending.sess.user_id,
                            !.chat = {},
                            !.turns = 0]
    /\ resp' = [CoachBase("POST", None, 1, pending.goal, FALSE) EXCEPT
                   !.action = "generate",
                   !.plan_text = pending.plan_text,
                   !.chat = ChatAfterGenerate(pending.sess.coach_chat),
                   !.called = 1]
    /\ pending' = NoPending
    /\ UNCHANGED <<users, bmi_history, coach_plans, now, segIn, segOut, password_resets,
                   jar, gateway, resetting>>

\* the next request comes from the other browser
SwitchBrowser ==
    /\ session' = jar.session
    /\ hist' = jar.hist
    /\ pending' = jar.pending
    /\ jar' = [session |-> session, hist |-> hist, pending |-> pending]
    /\ resp' = NoResp
    /\ UNCHANGED <<users, bmi_history, coach_plans, now, segIn, segOut, password_resets,
                   gateway, resetting>>

(***************************************************************************)
(* Inputs of the requests                                                  *)
(***************************************************************************)
GoodPassword == <<"S", "e", "c", "r", "e", "t", "1">>

Passwords == {GoodPassword, <<"a", "b", "c">>}

\* the password a reset sets
NewPassword == <<"S", "e", "c", "r", "e", "t", "2">>

\* weight (kg) and height (cm) fields of the BMI form; valid is FALSE for a
\* field float() rejects
BmiForms == {<<TRUE, 70, 175>>, <<TRUE, 70, 0>>, <<FALSE, 0, 0>>}

\* the form field goal (None: absent)
GoalInputs == {None, "gain muscle"}

\* a plan with sections for weeks 1 and 3
PlanA ==
    <<"w", "e", "e", "k", "1", ":", "a", "\n", "W", "e", "e", "k", " ", "3", "-", "b">>

\* a text without headings, such as the provider's error text
PlainText == <<"n", "o">>

\* a plan with sections for weeks 1 and 2
PlanB ==
    <<"W", "E", "E", "K", " ", "1", ":", "\n", "c", "\n", "W", "E", "E", "K", " ", "2", ":", "\n", "d">>

\* what the provider call returns for a plan in Spec: nothing, a text
\* without headings, a plan
PlanReplies == {<<>>, PlainText, PlanA}

AnswerReplies == {<<"o", "k">>}

\* the form field question (NoText: absent)
Questions == {<<"h", "i">>, <<" ">>, NoText}

GenerateForm(goal) == [action |-> "generate", goal |-> goal, question |-> NoText]

AskForm(goal, question) == [action |-> "ask", goal |-> goal, question |-> question]

OtherForm(goal) == [action |-> None, goal |-> goal, question |-> NoText]

\* the requests to /coach with their inputs drawn from the given sets
CoachViewOf(W) ==
    \E w \in W : Coach("GET", w, OtherForm(None), Content(<<>>))

\* a generate request reads the clock when it stores a plan: the model
\* lets it do so while the clock is below bound
CoachGenerateOf(W, G, R, bound) ==
    /\ \/ now < bound
       \/ session.user_id = NoUser
       \/ get_latest_bmi(session.user_id) = NoBmi
    /\ \E w \in W, g \in G, r \in R : Coach("POST", w, GenerateForm(g), Content(r))

CoachAskOf(W, G, Q, R) ==
    \E w \in W, g \in G, q \in Q, r \in R : Coach("POST", w, AskForm(g, q), Content(r))

CoachOtherOf(W, G) ==
    \E w \in W, g \in G : Coach("POST", w, OtherForm(g), Content(<<>>))

(***************************************************************************)
(* Spec: the application, one browser, two accounts                        *)
(***************************************************************************)
Init ==
    /\ users = <<>>
    /\ bmi_history = <<>>
    /\ coach_plans = <<>>
    /\ session = EmptySession
    /\ now = 0
    /\ resp = NoResp
    /\ hist = NoHist
    /\ segIn = <<>>
    /\ segOut = <<>>
    /\ password_resets = <<>>
    /\ pending = NoPending
    /\ jar = EmptyJar
    /\ gateway = NoCall
    /\ resetting = {}

\* the week argument of Spec: absent, week 1 by default
MainWeekArgs == {None}

\* Spec reads the clock this many times
MaxMainTime == 2

\* Spec stops asking at this many turns; SpecChat asks without limit
MaxMainTurns == 2

DoRegister ==
    \E u \in Usernames, e \in Emails, p \in Passwords : Register(u, e, p)

DoLogin ==
    \E u \in Usernames, p \in Passwords : Login(u, p)

\* a BMI form that is stored reads the clock: the model lets it do so while
\* the clock is below bound
BmiPostOf(F, bound) ==
    \E f \in F :
        /\ \/ now < bound
           \/ session.user_id = NoUser
           \/ ~f[1] \/ f[2] <= 0 \/ f[3] <= 0
        /\ BmiPost(f[1], f[2], f[3])

DoBmiPost == BmiPostOf(BmiForms, MaxMainTime)

CoachView == CoachViewOf(MainWeekArgs)

CoachGenerate == CoachGenerateOf(MainWeekArgs, GoalInputs, PlanReplies, MaxMainTime)

CoachAsk ==
    /\ Len(session.coach_chat) < MaxMainTurns
    /\ CoachAskOf(MainWeekArgs, GoalInputs, Questions, AnswerReplies)

CoachOther == CoachOtherOf(MainWeekArgs, GoalInputs)

Next ==
    \/ DoRegister
    \/ DoLogin
    \/ Logout
    \/ DoBmiPost
    \/ ClearHistory
    \/ CoachView
    \/ CoachGenerate
    \/ CoachAsk
    \/ CoachOther

Spec == Init /\ [][Next]_vars

(***************************************************************************)
(* SpecSeg: one run of split_plan_into_weeks on an input text              *)
(***************************************************************************)
InitSeg ==
    /\ users = <<>>
    /\ bmi_history = <<>>
    /\ coach_plans = <<>>
    /\ session = EmptySession
    /\ now = 0
    /\ resp = NoResp
    /\ hist = NoHist
    /\ segIn \in SegInputs
    /\ segOut = <<>>
    /\ password_resets = <<>>
    /\ pending = NoPending
    /\ jar = EmptyJar
    /\ gateway = NoCall
    /\ resetting = {}

Segment ==
    /\ segOut = <<>>
    /\ segOut' = split_plan_into_weeks(segIn)
    /\ UNCHANGED <<users, bmi_history, coach_plans, session, now, resp, hist, segIn,
                 password_resets, pending, jar, gateway, resetting>>

NextSeg == Segment

SpecSeg == InitSeg /\ [][NextSeg]_vars

(***************************************************************************)
(* SpecWrap: a run of split_plan_into_weeks, then a second run on one of   *)
(* its sections under the heading of its week                              *)
(***************************************************************************)
\* a section under its own heading: 'WEEK n:', a line break, the section
Rewrapped(n, section) == Heading(n) \o <<"\n">> \o section

\* the section that Rewrapped put under the heading of week n
Unwrapped(n, text) == SubSeq(text, Len(Heading(n)) + 2, Len(text))

\* split_plan_into_weeks is run again, on a section of the first result
Resegment ==
    /\ segOut # <<>>
    /\ resp = NoResp
    /\ \E n \in 1..4 :
           /\ segOut[n] # <<>>
           /\ segIn' = Rewrapped(n, segOut[n])
           /\ segOut' = split_plan_into_weeks(Rewrapped(n, segOut[n]))
           /\ resp' = [NoResp EXCEPT !.handler = "split_plan_into_weeks", !.week = n]
    /\ UNCHANGED <<users, bmi_history, coach_plans, session, now, hist, password_resets, pending, jar, gateway, resetting>>

NextWrap ==
    \/ Segment
    \/ Resegment

SpecWrap == InitSeg /\ [][NextWrap]_vars

(***************************************************************************)
(* SpecChat: one account, two different questions, asked without limit, so *)
(* that the conversation outgrows MaxChat                                  *)
(***************************************************************************)
\* the clock reads of SpecChat and SpecView
MaxTime == 3

ChatQuestions == {<<"h", "i">>, <<"y", "o", " ">>, <<" ">>}

RegisterAlice == Register("alice", "a@x", GoodPassword)

LoginAlice == Login("alice", GoodPassword)

ChatBmiPost == BmiPostOf({<<TRUE, 70, 175>>}, MaxTime)

ChatView == CoachViewOf({None})

ChatGenerate == CoachGenerateOf({None}, {None}, {PlainText}, MaxTime)

ChatAsk == CoachAskOf({None}, {None}, ChatQuestions, AnswerReplies)

NextChat ==
    \/ RegisterAlice
    \/ LoginAlice
    \/ Logout
    \/ ChatBmiPost
    \/ ChatView
    \/ ChatGenerate
    \/ ChatAsk

SpecChat == Init /\ [][NextChat]_vars

(***************************************************************************)
(* SpecView: one account, every week argument, plans of several shapes     *)
(***************************************************************************)
\* what the provider call returns for a plan in SpecView
ViewReplies == PlanReplies \cup {PlanB}

ViewClearHistory == ClearHistory

ViewView == CoachViewOf(WeekArgs)

ViewGenerate == CoachGenerateOf(WeekArgs, {None}, ViewReplies, MaxTime)

\* the week arguments of the asks of SpecView: absent, in range, out of
\* range, no number
ViewAskWeekArgs == {None, "3", "5", "x"}

\* the questions of SpecView: one that is asked and an absent field
ViewQuestions == {<<"h", "i">>, NoText}

ViewAsk ==
    /\ Len(session.coach_chat) < MaxMainTurns
    /\ CoachAskOf(ViewAskWeekArgs, {None}, ViewQuestions, AnswerReplies)

NextView ==
    \/ RegisterAlice
    \/ LoginAlice
    \/ Logout
    \/ ChatBmiPost
    \/ ViewClearHistory
    \/ ViewView
    \/ ViewGenerate
    \/ ViewAsk

SpecView == Init /\ [][NextView]_vars

(***************************************************************************)
(* SpecLoad: two accounts, plans of two goals, stored and loaded again     *)
(***************************************************************************)
\* what the provider call returns for a plan in SpecLoad
LoadReplies == {<<>>, PlanA, PlanB}

LoadGenerate == CoachGenerateOf({None}, GoalInputs, LoadReplies, MaxTime)

NextLoad ==
    \/ DoRegister
    \/ DoLogin
    \/ Logout
    \/ ChatBmiPost
    \/ ChatView
    \/ LoadGenerate

SpecLoad == Init /\ [][NextLoad]_vars

(***************************************************************************)
(* SpecStore: one account with every request of the application, password *)
(* reset included                                                          *)
(***************************************************************************)
\* reset tokens requested in SpecStore
MaxResets == 1

StoreLogin == \E p \in {GoodPassword, NewPassword} : Login("alice", p)

StoreForgot ==
    /\ Len(password_resets) < MaxResets
    /\ \E e \in Emails : Forgot(e)

StoreReset ==
    \E t \in 1..(Len(password_resets) + 1), expired \in BOOLEAN,
       p \in {NewPassword, <<"a", "b", "c">>} : ResetPassword(t, expired, p)

StoreGenerate == CoachGenerateOf({None}, {None}, {<<>>, PlanA}, MaxTime)

StoreAsk ==
    /\ Len(session.coach_chat) < MaxMainTurns
    /\ CoachAskOf({None}, {None}, {<<"h", "i">>}, AnswerReplies)

NextStore ==
    \/ RegisterAlice
    \/ StoreLogin
    \/ Logout
    \/ StoreForgot
    \/ StoreReset
    \/ ChatBmiPost
    \/ ViewClearHistory
    \/ ChatView
    \/ StoreGenerate
    \/ StoreAsk

SpecStore == Init /\ [][NextStore]_vars

(***************************************************************************)
(* SpecRace: one account logged in from two browsers whose generate        *)
(* requests overlap                                                        *)
(***************************************************************************)
RaceGenerate ==
    /\ now < MaxTime
    /\ \E r \in {PlanA, PlanB} : GenerateCall(GenerateForm(None), Content(r))

RaceStamp ==
    /\ now < MaxTime
    /\ GenerateStamp

NextRace ==
    \/ RegisterAlice
    \/ LoginAlice
    \/ Logout
    \/ ChatBmiPost
    \/ ChatView
    \/ RaceGenerate
    \/ RaceStamp
    \/ GenerateInsert
    \/ GenerateRespond
    \/ SwitchBrowser

SpecRace == Init /\ [][NextRace]_vars

(***************************************************************************)
(* SpecGate: one account whose generate and ask requests meet every        *)
(* outcome of the call of the provider                                     *)
(***************************************************************************)
\* no API key in the environment
NoKey == [Content(<<>>) EXCEPT !.key = FALSE]

\* requests.post raises Timeout, ConnectionError, or an exception that is
\* no RequestException
TimedOut == [Content(<<>>) EXCEPT !.transport = "Timeout"]

Refused ==
    [Content(<<>>) EXCEPT !.transport = "RequestException",
                          !.detail = <<"r", "e", "f", "u", "s", "e", "d">>]

Broken ==
    [Content(<<>>) EXCEPT !.transport = "Exception", !.detail = <<"b", "a", "d">>]

\* a response whose body is JSON: dumped is json.dumps(r.json(), indent=2)
JsonBody(status, parsed, dumped) ==
    [Content(<<>>) EXCEPT !.status = status, !.parsed = parsed, !.dumped = dumped,
                          !.raw = dumped]

\* a response whose body is no JSON: r.json() raises decode with message
\* detail
RawBody(status, raw, decode, detail) ==
    [Content(<<>>) EXCEPT !.status = status, !.parsed = "invalid", !.raw = raw,
                          !.decode = decode, !.detail = detail]

\* a response whose first choice carries the string under "text"
TextChoice(content) == [Content(content) EXCEPT !.parsed = "text"]

BodyNoAuth ==
    <<"{", "\n", " ", " ", "\"", "e", "r", "r", "o", "r", "\"", ":", " ",
      "\"", "n", "o", " ", "a", "u", "t", "h", "\"", "\n", "}">>

BodyBusy ==
    <<"{", "\n", " ", " ", "\"", "e", "r", "r", "o", "r", "\"", ":", " ",
      "\"", "r", "e", "t", "r", "y", " ", "i", "n", " ", "w", "e", "e",
      "k", " ", "2", ":", " ", "b", "u", "s", "y", "\"", "\n", "}">>

BodyHtml ==
    <<"<", "h", "1", ">", "B", "a", "d", " ", "G", "a", "t", "e", "w", "a",
      "y", "<", "/", "h", "1", ">", "\r", "\n">>

BodyEmptyObject == <<"{", "}">>

BodyNullContent ==
    <<"{", "\n", " ", " ", "\"", "c", "h", "o", "i", "c", "e", "s", "\"",
      ":", " ", "[", "\n", " ", " ", " ", " ", "{", "\n", " ", " ", " ",
      " ", " ", " ", "\"", "m", "e", "s", "s", "a", "g", "e", "\"", ":",
      " ", "{", "\n", " ", " ", " ", " ", " ", " ", " ", " ", "\"", "c",
      "o", "n", "t", "e", "n", "t", "\"", ":", " ", "n", "u", "l", "l",
      "\n", " ", " ", " ", " ", " ", " ", "}", "\n", " ", " ", " ", " ",
      "}", "\n", " ", " ", "]", "\n", "}">>

BodyNull == <<"n", "u", "l", "l">>

MsgExpecting ==
    <<"E", "x", "p", "e", "c", "t", "i", "n", "g", " ", "v", "a", "l", "u",
      "e", ":", " ", "l", "i", "n", "e", " ", "1", " ", "c", "o", "l", "u",
      "m", "n", " ", "1", " ", "(", "c", "h", "a", "r", " ", "0", ")">>

PaddedPlan == <<" ">> \o PlanA \o <<"\n">>

HttpOutcomes ==
    {JsonBody(<<"4", "0", "1">>, "object", BodyNoAuth),
     JsonBody(<<"4", "2", "9">>, "object", BodyBusy),
     RawBody(<<"5", "0", "2">>, BodyHtml, "ValueError", MsgExpecting),
     RawBody(<<"5", "0", "3">>, <<>>, "ValueError", MsgExpecting)}

ShapeOutcomes ==
    {JsonBody(StatusOk, "object", BodyEmptyObject),
     JsonBody(StatusOk, "null_content", BodyNullContent),
     JsonBody(StatusOk, "null", BodyNull),
     RawBody(StatusOk, BodyHtml, "ValueError", MsgExpecting),
     RawBody(StatusOk, BodyHtml, "RequestException", MsgExpecting)}

SuccessOutcomes == {Content(PlanA), Content(PaddedPlan), Content(<<>>), TextChoice(PlainText)}

Outcomes ==
    {NoKey, TimedOut, Refused, Broken} \cup HttpOutcomes \cup ShapeOutcomes
        \cup SuccessOutcomes

AskOutcomes ==
    {NoKey, TimedOut, Content(<<"o", "k">>),
     JsonBody(<<"4", "0", "1">>, "object", BodyNoAuth)}

\* SpecGate reads the clock this many times
MaxGateTime == 2

\* SpecGate stops asking at this many turns
MaxGateTurns == 2

GateBmiPost == BmiPostOf({<<TRUE, 70, 175>>}, MaxGateTime)

GateGenerate ==
    /\ \/ now < MaxGateTime
       \/ session.user_id = NoUser
       \/ get_latest_bmi(session.user_id) = NoBmi
    /\ \E o \in Outcomes : Coach("POST", None, GenerateForm(None), o)

GateAsk ==
    /\ Len(session.coach_chat) < MaxGateTurns
    /\ \E q \in Questions, o \in AskOutcomes : Coach("POST", None, AskForm(None, q), o)

NextGate ==
    \/ RegisterAlice
    \/ GateBmiPost
    \/ ChatView
    \/ GateGenerate
    \/ GateAsk

SpecGate == Init /\ [][NextGate]_vars

(***************************************************************************)
(* SpecHist: two accounts that record and clear their BMI history and use  *)
(* the coach                                                               *)
(***************************************************************************)
\* SpecHist reads the clock this many times
MaxHistTime == 3

HistRegister ==
    \/ Register("alice", "a@x", GoodPassword)
    \/ Register("bob", "b@x", GoodPassword)

HistBmiPost == BmiPostOf({<<TRUE, 70, 175>>}, MaxHistTime)

HistGenerate == CoachGenerateOf({None}, GoalInputs, {PlainText}, MaxHistTime)

\* SpecHist stops asking at this many turns
MaxHistTurns == 4

HistAsk ==
    /\ Len(session.coach_chat) < MaxHistTurns
    /\ CoachAskOf({None}, GoalInputs, {<<"h", "i">>, <<" ">>}, AnswerReplies)

NextHist ==
    \/ HistRegister
    \/ Logout
    \/ HistBmiPost
    \/ ClearHistory
    \/ HistGenerate
    \/ HistAsk

SpecHist == Init /\ [][NextHist]_vars

(***************************************************************************)
(* SpecReset: one account whose requests to /reset/<token> overlap         *)
(***************************************************************************)
\* requests to /reset/<token> in flight at once
MaxInFlight == 2

\* another password that is_valid_password accepts
OtherPassword == <<"S", "e", "c", "r", "e", "t", "3">>

ResetLogin == \E p \in {GoodPassword, NewPassword, OtherPassword} : Login("alice", p)

ResetForgot ==
    /\ Len(password_resets) < MaxResets
    /\ \E e \in Emails : Forgot(e)

ResetCheckAny ==
    /\ Cardinality(resetting) < MaxInFlight
    /\ \E req \in (1..MaxInFlight) \ {r.req : r \in resetting},
          t \in 1..(Len(password_resets) + 1), expired \in BOOLEAN,
          p \in {NewPassword, OtherPassword, <<"a", "b", "c">>} :
          ResetCheck(req, t, expired, p)

ResetWriteAny == \E r \in resetting : ResetWrite(r)

NextReset ==
    \/ RegisterAlice
    \/ ResetLogin
    \/ Logout
    \/ ResetForgot
    \/ ResetCheckAny
    \/ ResetWriteAny

SpecReset == Init /\ [][NextReset]_vars

(***************************************************************************)
(* Properties of split_plan_into_weeks (checked under SpecSeg)             *)
(***************************************************************************)
\* t without its leading and trailing whitespace: from its first to its
\* last character that is not whitespace
Trim(t) ==
    LET Inked == {k \in 1..Len(t) : ~IsSpace(t[k])} IN
    IF Inked = {} THEN <<>>
    ELSE SubSeq(t, CHOOSE i \in Inked : \A k \in Inked : i <= k,
                   CHOOSE j \in Inked : \A k \in Inked : k <= j)

\* no position of t starts a match of the heading pattern
NoHeading(t) == \A i \in 1..Len(t) : MatchAt(t, i) = NoMatch

NonBlank(t) == \E k \in 1..Len(t) : ~IsSpace(t[k])

\* the trimmed text between the end of match i and the start of the next
\* match, or the end of the text
Between(text, ms, i) ==
    Trim(SubSeq(text, ms[i].end,
                IF i < Len(ms) THEN ms[i + 1].start - 1 ELSE Len(text)))

\* C7: for every input text the result of split_plan_into_weeks has exactly
\* the keys 1, 2, 3 and 4, whatever headings the text holds.
C7_KeysAreOneToFour ==
    segOut # <<>> => DOMAIN segOut = 1..4

\* a text with headings out of order, a heading number 5 and a repeated
\* heading was segmented
C7_Witness ==
    /\ segOut # <<>>
    /\ segIn = <<"W", "E", "E", "K", " ", "2">> \o <<"w", "e", "e", "k", "5">>
               \o <<"w", "e", "e", "k", "1", ":">> \o <<"w", "e", "e", "k", "1", ":">>

\* C8 as stated: a text without headings is stored unchanged under week 1,
\* weeks 2 to 4 are empty.
C8_FullTextUnderWeek1 ==
    (segOut # <<>> /\ NoHeading(segIn)) => segOut = <<segIn, <<>>, <<>>, <<>>>>

\* C8 amended: a text without headings is stored under week 1 with its line
\* endings normalised (\r\n to \n) and its leading and trailing whitespace
\* removed; weeks 2 to 4 are empty.
C8_TrimmedTextUnderWeek1 ==
    (segOut # <<>> /\ NoHeading(segIn)) =>
        segOut = <<Trim(ReplaceCRLF(segIn)), <<>>, <<>>, <<>>>>

\* a text without headings was segmented and week 1 holds less than the text
C8_Witness ==
    /\ segOut # <<>>
    /\ NoHeading(segIn)
    /\ segOut[1] # <<>>
    /\ segOut[1] # segIn

BodiesOf(text) == CHOOSE b \in BodyTuples : Plan4(b) = text

Concat4(w) == w[1] \o w[2] \o w[3] \o w[4]

\* C9 as stated: for a plan of four headings 'WEEK n:' in ascending order,
\* each followed by content, the four values are non-empty and their
\* concatenation is the text of the plan without its headings.
C9_ConcatIsBodyText ==
    (segOut # <<>> /\ segIn \in FourWeekPlans) =>
        LET b == BodiesOf(segIn) IN
        (\A n \in 1..4 : NonBlank(b[n])) =>
            /\ \A n \in 1..4 : segOut[n] # <<>>
            /\ Concat4(segOut) = Concat4(b)

\* C9 amended: for a plan of four headings 'WEEK n:' in ascending order,
\* each followed by content in which the heading pattern does not occur, the
\* four values are non-empty, each is the text that follows its heading with
\* line endings normalised and surrounding whitespace removed, and their
\* concatenation is the concatenation of these trimmed texts.
C9_ConcatIsTrimmedBodies ==
    (segOut # <<>> /\ segIn \in FourWeekPlans) =>
        LET b == BodiesOf(segIn)
            t == [n \in 1..4 |-> Trim(ReplaceCRLF(b[n]))]
        IN (\A n \in 1..4 : NonBlank(b[n]) /\ NoHeading(b[n])) =>
            /\ \A n \in 1..4 : segOut[n] # <<>> /\ segOut[n] = t[n]
            /\ Concat4(segOut) = Concat4(t)

\* a four-week plan whose sections hold content and no heading was segmented
C9_Witness ==
    /\ segOut # <<>>
    /\ segIn = Plan4(<< <<"\n", "-", " ", "a", "\n", "\n">>,
                        <<"\r", "\n", "b", "\r", "\n", "c", "\r", "\n">>,
                        <<"\n", "-", " ", "a", "\n", "\n">>,
                        <<"\r", "\n", "b", "\r", "\n", "c", "\r", "\n">> >>)

\* C10 as stated: for every heading match, the text stored under the match's
\* week number is the (trimmed) text between the end of that heading and the
\* start of the next heading or the end of the text.
C10_EveryMatchStored ==
    segOut # <<>> =>
        LET text == ReplaceCRLF(segIn)
            ms == FindIter(text, 1)
        IN \A i \in 1..Len(ms) :
               segOut[IntOf(ms[i].group2)] = Between(text, ms, i)

ScenarioResult ==
    << <<"-", " ", "w", "a", "l", "k", "\n", "M", "o", "t", "i", "v", "a", "t", "i",
         "o", "n", ":", " ", "\"", "g", "o", "\"">>,
       <<"-", " ", "r", "u", "n">>, <<>>, <<>> >>

\* C10 amended: the text stored under week n is the trimmed text between the
\* end of a heading and the start of the next heading (or the end of the
\* text) for the last match of n whose trimmed section is not empty; a match
\* whose section is empty stores nothing; and when no match has a section
\* that is not empty, week 1 holds the whole trimmed text. The scenario of
\* the specification yields the map it states.
C10_LastNonEmptyMatchStored ==
    segOut # <<>> =>
        LET text == ReplaceCRLF(segIn)
            ms == FindIter(text, 1)
            Stored(n) == {i \in 1..Len(ms) :
                             IntOf(ms[i].group2) = n /\ Between(text, ms, i) # <<>>}
            Last(S) == CHOOSE i \in S : \A j \in S : j <= i
        IN /\ (ms # <<>> /\ \E n \in 1..4 : Stored(n) # {}) =>
                  \A n \in 1..4 :
                      segOut[n] = IF Stored(n) = {} THEN <<>>
                                  ELSE Between(text, ms, Last(Stored(n)))
           /\ (ms # <<>> /\ \A n \in 1..4 : Stored(n) = {}) =>
                  segOut = <<Trim(text), <<>>, <<>>, <<>>>>
           /\ segIn = Scenario => segOut = ScenarioResult

\* a text was segmented in which a week number is matched twice, each time
\* with a section that is not empty
C10_Witness ==
    /\ segOut # <<>>
    /\ LET text == ReplaceCRLF(segIn)
           ms == FindIter(text, 1)
       IN \E i, j \in 1..Len(ms) :
              /\ i < j
              /\ ms[i].group2 = ms[j].group2
              /\ Between(text, ms, i) # <<>>
              /\ Between(text, ms, j) # <<>>

\* the second run of split_plan_into_weeks has taken place
Resegmented == resp.handler = "split_plan_into_weeks"

\* t holds a carriage return followed by a line feed
HasCRLF(t) == \E i \in 1..(Len(t) - 1) : t[i] = "\r" /\ t[i + 1] = "\n"

\* C11 as stated: a section of a result, put under its own heading 'WEEK n:'
\* and segmented again, comes back under week n and the other three weeks
\* are empty.
C11_ResegmentIsSameSection ==
    Resegmented =>
        segOut = (resp.week :> Unwrapped(resp.week, segIn)) @@ EmptyWeeks

\* C11 amended: a section of a result in which the heading pattern does not
\* occur and which holds no \r\n, put under its own heading 'WEEK n:' and
\* segmented again, comes back under week n and the other three weeks are
\* empty.
C11_ResegmentOfPlainSection ==
    (/\ Resegmented
     /\ NoHeading(Unwrapped(resp.week, segIn))
     /\ ~HasCRLF(Unwrapped(resp.week, segIn)))
    => segOut = (resp.week :> Unwrapped(resp.week, segIn)) @@ EmptyWeeks

\* the section of week 2 of a text with two headings was segmented again
\* and came back alone under week 2
C11_Witness ==
    /\ Resegmented
    /\ resp.week = 2
    /\ segIn = Rewrapped(2, <<"a", " ", "b">>)
    /\ segOut = (2 :> <<"a", " ", "b">>) @@ EmptyWeeks

(***************************************************************************)
(* Properties of the coach handler                                         *)
(***************************************************************************)
\* the step is a request to /coach that asked the provider a question
AskAnswered == resp'.handler = "coach" /\ resp'.action = "ask" /\ resp'.called = 1

\* d is c with a question turn and an answer turn appended, cut to the
\* newest MaxChat turns, the order of the turns kept
AppendedAndCut(c, d) ==
    /\ Len(d) >= 2
    /\ d[Len(d) - 1].role = "user"
    /\ d[Len(d)].role = "assistant"
    /\ LET full == c \o SubSeq(d, Len(d) - 1, Len(d)) IN
           /\ Len(d) = IF Len(full) <= MaxChat THEN Len(full) ELSE MaxChat
           /\ \A i \in 1..Len(d) : d[i] = full[Len(full) - Len(d) + i]

\* C1: the stored conversation never holds more than 20 turns; every ask
\* that is answered leaves the previous conversation followed by the new
\* question and answer, cut to its 20 newest turns in their order; no other
\* request changes the conversation except to empty it.
C1_TranscriptIsNewestTurns ==
    /\ [](Len(session.coach_chat) <= MaxChat)
    /\ [][/\ AskAnswered =>
                AppendedAndCut(session.coach_chat, session.coach_chat')
          /\ ~AskAnswered =>
                \/ session.coach_chat' = session.coach_chat
                \/ session.coach_chat' = <<>>]_vars

\* an ask arrived at a conversation of 20 turns whose oldest question is
\* not the one asked, and left 20 turns
C1_Witness ==
    /\ resp.handler = "coach" /\ resp.action = "ask" /\ resp.called = 1
    /\ hist.chat_before = MaxChat
    /\ Len(session.coach_chat) = MaxChat
    /\ session.coach_chat[1].content = <<"y", "o">>
    /\ session.coach_chat[MaxChat - 1].content = <<"h", "i">>

\* C2: a generate request of a user without a BMI row answers with the
\* message that asks for a BMI, does not call the plan generator and
\* leaves the table coach_plans as it is.
C2_GenerateWithoutBmi ==
    [][(/\ session.user_id # NoUser
        /\ get_latest_bmi(session.user_id) = NoBmi
        /\ resp'.handler = "coach"
        /\ resp'.action = "generate")
       => (/\ resp'.error_msg = MsgNoBmi
           /\ resp'.called = 0
           /\ coach_plans' = coach_plans)]_vars

\* a generate request was refused for a user whose BMI rows were cleared
\* after an earlier plan
C2_Witness ==
    /\ resp.handler = "coach" /\ resp.action = "generate"
    /\ resp.error_msg = MsgNoBmi
    /\ coach_plans # <<>>

\* C3: right after a generate request that produced a plan the conversation
\* of the session is empty, and the conversation never holds more turns
\* than were asked since it was last emptied.
C3_GenerateClearsTranscript ==
    /\ (resp.handler = "coach" /\ resp.action = "generate" /\ resp.called = 1)
          => (session.coach_chat = <<>> /\ resp.chat = <<>>)
    /\ Len(session.coach_chat) <= hist.turns

\* a plan was generated in a session whose conversation was full
C3_Witness ==
    /\ resp.handler = "coach" /\ resp.action = "generate" /\ resp.called = 1
    /\ hist.chat_before = MaxChat
    /\ session.coach_chat = <<>>

\* C4: every coach field cached in the session was written for the user the
\* session identifies.
C4_CacheBelongsToSessionUser ==
    /\ session.coach_plan_text # NoText => hist.plan = session.user_id
    /\ session.coach_weeks # NoWeeks => hist.weeks = session.user_id
    /\ session.coach_goal # None => hist.goal = session.user_id
    /\ session.coach_chat # <<>> => hist.chat \subseteq {session.user_id}

\* C5: a response of /coach for a session whose plan text is not empty
\* shows a week text that is not empty, for every week argument; where the
\* section of the week is empty or missing, it shows the plan text.
C5_WeekTextNotEmpty ==
    (resp.handler = "coach" /\ resp.status = "ok" /\ Truthy(session.coach_plan_text))
    => /\ resp.week_text # <<>>
       /\ (/\ resp.action # "generate"
           /\ \/ session.coach_weeks = NoWeeks
              \/ session.coach_weeks[StrKey(resp.week)] = <<>>)
          => resp.week_text = session.coach_plan_text

\* week 2 was requested of a plan without a section for week 2
C5_Witness ==
    /\ resp.handler = "coach" /\ resp.status = "ok"
    /\ resp.week_arg = "2"
    /\ session.coach_plan_text = PlanA
    /\ resp.week_text = PlanA

\* the request carried a week argument that int() accepts
WeekArgIsInt ==
    /\ resp.handler = "coach" /\ resp.status = "ok"
    /\ resp.week_arg # None
    /\ IntParse(resp.week_arg).ok

ViewStep ==
    resp'.handler = "coach" /\ resp'.method = "GET" /\ resp'.status = "ok"

\* the positions in coach_plans of the plans stored for user u
PlansOf(u) == {i \in DOMAIN coach_plans : coach_plans[i].user_id = u}

\* C12: a view by a session without a cached plan text leaves the session
\* with the plan text and the goal of the user's stored plan of greatest
\* created_at and with the week map split_plan_into_weeks derives from that
\* text; it leaves the session as it is and reports no error when the user
\* has no stored plan; a view by a session with a cached plan text leaves
\* the session as it is; no view changes coach_plans.
C12_ViewLoadsNewestPlan ==
    [][ViewStep =>
          /\ coach_plans' = coach_plans
          /\ IF Truthy(session.coach_plan_text) THEN session' = session
             ELSE IF PlansOf(session.user_id) = {}
             THEN session' = session /\ resp'.error_msg = None
             ELSE \E i \in PlansOf(session.user_id) :
                      /\ \A j \in PlansOf(session.user_id) :
                             coach_plans[j].created_at <= coach_plans[i].created_at
                      /\ session' =
                            [session EXCEPT
                               !.coach_plan_text = coach_plans[i].plan_text,
                               !.coach_goal = coach_plans[i].goal,
                               !.coach_weeks =
                                  StrKeys(split_plan_into_weeks(coach_plans[i].plan_text))]
       ]_vars

\* a view loaded the newer of two stored plans that differ in text and goal
C12_Witness ==
    /\ resp.handler = "coach" /\ resp.method = "GET" /\ resp.loaded
    /\ Len(users) = 2
    /\ Len(coach_plans) = 2
    /\ coach_plans[1].user_id = session.user_id
    /\ coach_plans[2].user_id = session.user_id
    /\ coach_plans[1].plan_text = PlanB /\ coach_plans[1].goal = DefaultGoal
    /\ coach_plans[2].plan_text = PlanA /\ coach_plans[2].goal = "gain muscle"
    /\ session.coach_plan_text = PlanA
    /\ session.coach_goal = "gain muscle"
    /\ session.coach_weeks = StrKeys(split_plan_into_weeks(PlanA))

\* the step is a generate request that called the plan generator
PlanGenerated ==
    resp'.handler = "coach" /\ resp'.action = "generate" /\ resp'.called = 1

\* C13: every step leaves the rows of coach_plans as they were, in their
\* order; a generate request that called the plan generator adds exactly one
\* row after them, and no other step adds a row.
C13_PlansOnlyGrow ==
    [][/\ Len(coach_plans') >= Len(coach_plans)
       /\ SubSeq(coach_plans', 1, Len(coach_plans)) = coach_plans
       /\ Len(coach_plans') = Len(coach_plans) + (IF PlanGenerated THEN 1 ELSE 0)
      ]_vars

\* a second plan was generated for a user, then the BMI rows were cleared and
\* the password was reset, and both plans are stored
C13_Witness ==
    /\ Len(coach_plans) = 2
    /\ coach_plans[1].user_id = coach_plans[2].user_id
    /\ coach_plans[1].created_at < coach_plans[2].created_at
    /\ bmi_history = <<>>
    /\ users[1].password_hash = hash_password(NewPassword)

\* no generate request is in flight in either browser
NoneInFlight == pending = NoPending /\ jar.pending = NoPending

\* the text of the plan of user u with the greatest created_at
NewestPlanText(u) ==
    coach_plans[CHOOSE i \in PlansOf(u) :
                    \A j \in PlansOf(u) :
                        coach_plans[j].created_at <= coach_plans[i].created_at].plan_text

\* C14 as stated: once the generate requests have completed, a view of
\* /coach serves the user's plan of greatest created_at.
C14_LatestPlanServed ==
    (/\ NoneInFlight
     /\ resp.handler = "coach" /\ resp.method = "GET" /\ resp.status = "ok"
     /\ PlansOf(session.user_id) # {})
    => resp.plan_text = NewestPlanText(session.user_id)

\* C14 amended: generate requests that overlap each insert their row and
\* leave every other row in place; a view by a session without a cached plan
\* loads and serves the user's plan of greatest created_at, whatever the
\* order of the inserts; a view by a session with a cached plan serves that
\* plan.
C14_BothInsertedNewestLoaded ==
    /\ [][IF pending.stage = "stamped" /\ pending'.stage = "inserted" /\ jar' = jar
          THEN coach_plans' = Append(coach_plans,
                   [user_id |-> pending.sess.user_id, goal |-> pending.goal,
                    plan_text |-> pending.plan_text,
                    created_at |-> pending.created_at])
          ELSE coach_plans' = coach_plans]_vars
    /\ [][(ViewStep /\ pending' = pending) =>
             IF resp'.loaded
             THEN resp'.plan_text = NewestPlanText(session.user_id)
             ELSE resp'.plan_text = session.coach_plan_text]_vars

\* two generate requests overlapped, the row stamped first was inserted
\* last, and a session without a cached plan was served the plan stamped last
C14_Witness ==
    /\ NoneInFlight
    /\ Len(coach_plans) = 2
    /\ coach_plans[1].user_id = coach_plans[2].user_id
    /\ coach_plans[1].created_at > coach_plans[2].created_at
    /\ coach_plans[1].plan_text # coach_plans[2].plan_text
    /\ resp.handler = "coach" /\ resp.method = "GET" /\ resp.loaded
    /\ resp.plan_text = coach_plans[1].plan_text

(***************************************************************************)
(* Properties of the gateway (checked under SpecGate)                      *)
(***************************************************************************)
\* the kind of an outcome in the taxonomy of the specification; an
\* exception of requests.post that is no RequestException has no kind
FailureKind(o) ==
    IF ~o.key THEN "Unavailable"
    ELSE IF o.transport = "Timeout" THEN "Timeout"
    ELSE IF o.transport = "RequestException" THEN "NetworkError"
    ELSE IF o.transport # "response" THEN "Other"
    ELSE IF o.status[1] # "2" THEN "HttpError"
    ELSE IF o.parsed \in {"content", "text"} THEN "Success"
    ELSE "MalformedResponse"

\* the text the taxonomy gives an outcome
TextOfKind(o) ==
    CASE FailureKind(o) = "Unavailable" -> MsgNoKey
      [] FailureKind(o) = "Timeout" -> MsgTimeout
      [] FailureKind(o) = "NetworkError" -> MsgNetwork \o o.detail
      [] FailureKind(o) = "HttpError" -> MsgHttp \o o.status \o MsgDetails \o o.raw
      [] FailureKind(o) = "MalformedResponse" -> MsgUnexpected \o o.raw
      [] OTHER -> gateway.text

\* C15 (as stated): a call of the gateway never raises; it returns a string,
\* and each kind of failure has its own text: Unavailable, HttpError with
\* status and body, Timeout, NetworkError with detail, and MalformedResponse
\* with the raw payload for a body that cannot be parsed or has an
\* unexpected shape.
C15_EachFailureHasOwnText ==
    gateway.returned =>
        /\ ~gateway.raised
        /\ gateway.text = TextOfKind(gateway.outcome)

\* C16: there are no automatic retries. One call of the gateway sends at
\* most one HTTP request, and none without an API key; one request to /coach
\* makes at most one call of the gateway, whatever the call returns, and a
\* request that makes no call sends nothing.
C16_NoRetries ==
    [][/\ gateway'.requests <= 1
       /\ (gateway'.returned /\ ~gateway'.outcome.key => gateway'.requests = 0)
       /\ resp'.called <= 1
       /\ (resp'.called = 0 => gateway' = gateway)]_vars

\* a generate request whose call timed out has sent one HTTP request, and
\* the request has ended with the text of the timeout as its plan
C16_Witness ==
    /\ resp.handler = "coach" /\ resp.action = "generate" /\ resp.called = 1
    /\ gateway.returned /\ gateway.outcome = TimedOut
    /\ gateway.requests = 1
    /\ resp.plan_text = MsgTimeout

\* sub occurs in t
Contains(t, sub) ==
    \E i \in 1..(Len(t) - Len(sub) + 1) : SubSeq(t, i, i + Len(sub) - 1) = sub

\* the week map that holds t under week 1 and nothing else
OnlyWeek1(t) == [k \in {"1", "2", "3", "4"} |-> IF k = "1" THEN t ELSE <<>>]

\* the last request was a generate whose call of the gateway got a response
\* of a status that is no success
GeneratedOnHttpError ==
    /\ resp.handler = "coach" /\ resp.action = "generate" /\ resp.called = 1
    /\ gateway.returned
    /\ FailureKind(gateway.outcome) = "HttpError"

\* C17 (as stated): when the gateway receives a non-success HTTP status, the
\* plan generator returns a string that contains the status code and the
\* diagnostic body, and the segmenter gives that string under week 1 and
\* the empty string under weeks 2 to 4.
C17_HttpErrorUnderWeek1 ==
    GeneratedOnHttpError =>
        /\ resp.plan_text = gateway.text
        /\ Contains(resp.plan_text, gateway.outcome.status)
        /\ Contains(resp.plan_text, gateway.outcome.raw)
        /\ session.coach_weeks = OnlyWeek1(resp.plan_text)

\* C17 (amended): the string contains the status code and the body; when it
\* holds no week heading, the segmenter gives it under week 1 with \r\n
\* replaced by \n and its trailing whitespace removed, and the empty string
\* under weeks 2 to 4: that is the string itself when the body has no \r\n
\* and does not end in whitespace.
C17_HttpErrorTrimmedUnderWeek1 ==
    GeneratedOnHttpError =>
        /\ resp.plan_text = gateway.text
        /\ Contains(resp.plan_text, gateway.outcome.status)
        /\ Contains(resp.plan_text, gateway.outcome.raw)
        /\ NoHeading(resp.plan_text) =>
               session.coach_weeks = OnlyWeek1(Trim(ReplaceCRLF(resp.plan_text)))
        /\ (/\ NoHeading(resp.plan_text)
            /\ ~HasCRLF(resp.plan_text)
            /\ resp.plan_text = Trim(resp.plan_text)) =>
               session.coach_weeks = OnlyWeek1(resp.plan_text)

\* a generate request got HTTP 401 with a JSON body: the whole error text
\* is the plan and is stored under week 1
C17_Witness ==
    /\ GeneratedOnHttpError
    /\ gateway.outcome.status = <<"4", "0", "1">>
    /\ gateway.outcome.raw = BodyNoAuth
    /\ session.coach_plan_text = gateway.text
    /\ session.coach_weeks = OnlyWeek1(gateway.text)

(***************************************************************************)
(* Properties of the ask and generate branches of coach()                  *)
(***************************************************************************)
\* the step is a POST to /coach of a logged-in user with action=ask
AskStep == resp'.handler = "coach" /\ resp'.method = "POST" /\ resp'.action = "ask"

\* the question field of the request is absent, empty or whitespace
BlankQuestion(q) == q = NoText \/ ~NonBlank(q)

\* the request ended with error_msg, called nothing and left the
\* conversation as it was
FailedWith(error_msg) ==
    /\ resp'.error_msg = error_msg
    /\ resp'.called = 0
    /\ gateway' = gateway
    /\ session'.coach_chat = session.coach_chat

\* the conversation grew by the question of the request, trimmed, and the
\* text the gateway returned
PairAppended ==
    /\ resp'.called = 1
    /\ AppendedAndCut(session.coach_chat, session'.coach_chat)
    /\ session'.coach_chat[Len(session'.coach_chat) - 1].content = Trim(resp'.question)
    /\ session'.coach_chat[Len(session'.coach_chat)].content = gateway'.text

\* C18 (as stated): an ask with an empty or whitespace-only question fails
\* with EmptyQuestion, without a call of the gateway and without a change
\* of the transcript; an ask of a user without a recorded BMI fails with
\* PrerequisiteMissing in the same way; only an ask with a question and a
\* recorded BMI appends the pair of question and answer.
C18_AskFailsByKind ==
    [][AskStep =>
          /\ BlankQuestion(resp'.question) => FailedWith(MsgNoQuestion)
          /\ get_latest_bmi(session.user_id) = NoBmi => FailedWith(MsgNoBmi)
          /\ (/\ ~BlankQuestion(resp'.question)
              /\ get_latest_bmi(session.user_id) # NoBmi) => PairAppended]_vars

\* C18 (amended): the BMI is checked first. An ask of a user without a
\* recorded BMI fails with PrerequisiteMissing whatever the question is; an
\* ask of a user with a recorded BMI and an empty or whitespace-only
\* question fails with EmptyQuestion; neither calls the gateway nor changes
\* the transcript. Only an ask with a question and a recorded BMI appends
\* the pair of question and answer.
C18_AskChecksBmiFirst ==
    [][AskStep =>
          /\ get_latest_bmi(session.user_id) = NoBmi => FailedWith(MsgNoBmi)
          /\ (/\ BlankQuestion(resp'.question)
              /\ get_latest_bmi(session.user_id) # NoBmi) => FailedWith(MsgNoQuestion)
          /\ (/\ ~BlankQuestion(resp'.question)
              /\ get_latest_bmi(session.user_id) # NoBmi) => PairAppended]_vars

\* an ask with a whitespace-only question arrived at a conversation that
\* holds turns, and left it as it was with the message of the empty question
C18_Witness ==
    /\ resp.handler = "coach" /\ resp.action = "ask"
    /\ resp.question = <<" ">>
    /\ resp.error_msg = MsgNoQuestion
    /\ resp.called = 0
    /\ Len(session.coach_chat) >= 2
    /\ Len(session.coach_chat) = hist.chat_before

\* a generate request of user u has stored a plan text that is not empty
HasGenerated(u) == \E i \in PlansOf(u) : Truthy(coach_plans[i].plan_text)

\* C19 (as stated): there is no way back to NoPlan. Once a generate request
\* of a user has produced a plan, every later view of /coach by that user,
\* whatever requests came in between, has a plan text and a week text to
\* serve.
C19_PlanStaysReady ==
    [][(ViewStep /\ HasGenerated(session.user_id)) =>
          /\ Truthy(resp'.plan_text)
          /\ resp'.week_text # <<>>]_vars

\* C20: the cached week map is derived from the cached plan text and never
\* changes on its own. After every request a session that holds a plan text
\* holds the week map split_plan_into_weeks gives for that text, a session
\* holds a week map only together with a plan text, and no request changes
\* the week map without changing the plan text.
C20_WeekMapIsSegmentOfPlan ==
    /\ [](/\ session.coach_plan_text # NoText =>
               session.coach_weeks =
                   StrKeys(split_plan_into_weeks(session.coach_plan_text))
          /\ session.coach_plan_text = NoText <=> session.coach_weeks = NoWeeks)
    /\ [][session'.coach_weeks # session.coach_weeks =>
              session'.coach_plan_text # session.coach_plan_text]_vars

\* a view after a new login loaded the stored plan with sections for weeks
\* 1 and 3: the session holds its text and a week map with the two sections
C20_Witness ==
    /\ resp.handler = "coach" /\ resp.method = "GET" /\ resp.loaded
    /\ session.coach_plan_text = PlanA
    /\ session.coach_weeks # NoWeeks
    /\ session.coach_weeks["1"] = <<"a">>
    /\ session.coach_weeks["3"] = <<"b">>

(***************************************************************************)
(* Properties of the BMI history (checked under SpecHist)                  *)
(***************************************************************************)
\* the step is a generate or ask request of a logged-in user
CoachActionStep ==
    /\ resp'.handler = "coach" /\ resp'.method = "POST"
    /\ resp'.action \in {"generate", "ask"}

\* table without the rows of user u, the other rows in their order
WithoutUser(table, u) == SelectSeq(table, LAMBDA r : r.user_id # u)

\* C21 (as stated): the BMI history is append-only per user. Requests only
\* add rows; none removes or changes a row; so a user who has recorded a
\* BMI never gets the PrerequisiteMissing error again.
C21_BmiHistoryAppendOnly ==
    /\ [][/\ Len(bmi_history') >= Len(bmi_history)
          /\ SubSeq(bmi_history', 1, Len(bmi_history)) = bmi_history]_vars
    /\ \A u \in {1, 2} :
           [](RowsOf(bmi_history, u) # {} =>
                 [](session.user_id = u => resp.error_msg # MsgNoBmi))

\* C21 (amended): a BMI request adds one row for the user of the session;
\* clear-history removes every row of that user and no row of another user;
\* no request changes a row. A generate or ask fails with
\* PrerequisiteMissing exactly when the user has no row at that moment, so
\* the error comes back after clear-history until a new BMI is recorded.
C21_BmiHistoryGrowsUntilCleared ==
    [][/\ \/ bmi_history' = bmi_history
          \/ /\ resp'.handler = "bmi_page"
             /\ Len(bmi_history') = Len(bmi_history) + 1
             /\ SubSeq(bmi_history', 1, Len(bmi_history)) = bmi_history
             /\ bmi_history'[Len(bmi_history')].user_id = session.user_id
          \/ /\ resp'.handler = "clear_history"
             /\ bmi_history' = WithoutUser(bmi_history, session.user_id)
       /\ CoachActionStep =>
             (resp'.error_msg = MsgNoBmi <=> RowsOf(bmi_history, session.user_id) = {})
      ]_vars

\* a user who had generated a plan, so had recorded a BMI, cleared the
\* history while another user's row stayed, and the next request to the
\* coach failed with the message of the missing BMI
C21_Witness ==
    /\ resp.handler = "coach" /\ resp.error_msg = MsgNoBmi
    /\ \E i \in DOMAIN coach_plans : coach_plans[i].user_id = session.user_id
    /\ RowsOf(bmi_history, session.user_id) = {}
    /\ bmi_history # <<>>

(***************************************************************************)
(* Properties of the response to generate (checked under SpecView)         *)
(***************************************************************************)
\* C22 (as stated): the response to a generate request that produced a plan
\* serves, for the requested week, the section of the new plan for that
\* week, or the full new plan text where that section is empty; it never
\* serves a section of the plan that was cached before.
C22_GenerateServesNewWeek ==
    (resp.handler = "coach" /\ resp.action = "generate" /\ resp.called = 1) =>
        resp.week_text =
            SelectWeek(StrKeys(split_plan_into_weeks(resp.plan_text)),
                       resp.week, resp.plan_text)

\* the step is a generate or ask request that failed for the missing BMI
\* or the empty question
FailedActionStep ==
    /\ CoachActionStep
    /\ resp'.error_msg \in {MsgNoBmi, MsgNoQuestion}

\* the goal field of the form, or the saved goal where the form has none
SubmittedGoal ==
    IF resp'.goal_arg # None THEN resp'.goal_arg ELSE LoadPlan(session).goal_saved

\* C23 (as stated): a request that fails with PrerequisiteMissing or
\* EmptyQuestion leaves the session's goal, plan text, week map and
\* transcript and the plan store as they were after the stored plan was
\* loaded.
C23_FailureChangesNothing ==
    [][FailedActionStep =>
          /\ session' = LoadPlan(session).session
          /\ coach_plans' = coach_plans]_vars

\* C23 (amended): such a request leaves the plan text, the week map, the
\* transcript and the plan store as they were after the stored plan was
\* loaded, and stores the goal of its form, or the saved or default goal
\* where the form has none, as the session's goal.
C23_FailureStoresGoalOnly ==
    [][FailedActionStep =>
          /\ session' = [LoadPlan(session).session EXCEPT !.coach_goal = SubmittedGoal]
          /\ coach_plans' = coach_plans]_vars

\* an ask with a whitespace-only question and another goal failed on a
\* session that holds a plan and turns: the goal is the new one, the plan
\* and the turns are still there
C23_Witness ==
    /\ resp.handler = "coach" /\ resp.action = "ask"
    /\ resp.error_msg = MsgNoQuestion
    /\ resp.goal_arg = "gain muscle"
    /\ resp.goal = "lose weight"
    /\ session.coach_goal = "gain muscle"
    /\ session.coach_plan_text = PlainText
    /\ Len(session.coach_chat) >= 2

(***************************************************************************)
(* Properties of the transcript (checked under SpecChat)                   *)
(***************************************************************************)
\* C24: in every reachable state the transcript of the session has even
\* length and its turns alternate, a user turn first and an assistant turn
\* after each user turn; so the cut to 20 turns never parts a question from
\* its answer.
C24_TranscriptAlternates ==
    /\ Len(session.coach_chat) % 2 = 0
    /\ \A i \in 1..Len(session.coach_chat) :
           session.coach_chat[i].role = IF i % 2 = 1 THEN "user" ELSE "assistant"

\* an answered ask arrived at 20 turns and the cut left 20 turns that begin
\* with a question and end with the new question and its answer
C24_Witness ==
    /\ resp.handler = "coach" /\ resp.action = "ask" /\ resp.called = 1
    /\ hist.chat_before = MaxChat
    /\ Len(session.coach_chat) = MaxChat
    /\ session.coach_chat[1].role = "user"
    /\ session.coach_chat[MaxChat - 1].content = <<"h", "i">>
    /\ session.coach_chat[MaxChat].role = "assistant"

(***************************************************************************)
(* Properties of the password reset (checked under SpecReset)              *)
(***************************************************************************)
\* C25 (as stated): a reset token changes a password at most once, also
\* when requests with the same token overlap: every step that changes the
\* password hash of an account uses up a token of that account that was
\* unused before the step, and a request with an unknown, expired or used
\* token changes no hash.
C25_TokenResetsOnce ==
    [][\A i \in DOMAIN users :
          users'[i].password_hash # users[i].password_hash =>
             \E t \in DOMAIN password_resets :
                /\ password_resets[t].user_id = i
                /\ ~password_resets[t].used
                /\ password_resets'[t].used]_vars

====
